---- MODULE Spec2Model ----
(***************************************************************************)
(* The conversation store of the circuit designer (the useChat hook), the  *)
(* generation request it issues, and the selective-edit surface of the     *)
(* canvas, as one state machine.                                           *)
(*                                                                         *)
(* A step of the machine is one run of a handler up to its next await:     *)
(* the state updates a handler queues are applied together, in the order   *)
(* they are queued (functional updates see the updates queued before       *)
(* them).  A callback created by useCallback reads the state through the   *)
(* values captured by the render that created it; those values are the     *)
(* record called an environment below.                                     *)
(***************************************************************************)
EXTENDS Integers, Sequences, FiniteSets, TLC

VARIABLES
    messages,            \* useChat.ts:24   the messages view
    sessions,            \* useChat.ts:25   the session list, newest first
    currentSessionId,    \* useChat.ts:26   active session id, NoId when none
    isLoading,           \* useChat.ts:27   the pending-request flag
    mode,                \* useChat.ts:28
    currentImage,        \* useChat.ts:30   display (blob) URL
    currentImageDataUrl, \* useChat.ts:32   source data URL
    apiKey,              \* useChat.ts:33
    inflight,            \* sendMessage calls suspended at the await of line 109,
                         \* each with the request it is waiting for
    fetches,             \* the number of fetches handed to fetch so far
    held,                \* the environment of a callback instance a caller kept
    storage,             \* useChat.ts:35  localStorage entry 'apiKey', Null if absent
    storageError,        \* the last localStorage call of the hook raised
    call,                \* the handler that ran in the last step, with its input
    isModalOpen,         \* part_004:87     the edit surface is open
    overlay,             \* part_004:104    the display-size raster
    hidden,              \* part_004:105    the natural-size raster
    undoStack,           \* part_004:96
    redoStack,           \* part_004:97
    lastPoint,           \* part_004:106    NoPoint when no stroke is being drawn
    imgNatural,          \* part_004:91
    loadedSrc,           \* the image the preview element has fired load for
    window,              \* the viewport the page is shown in
    overlayPreviewDataUrl, \* part_004:93
    handed,              \* the last value passed to onApplySelection
    onApplySelection     \* part_004:74     the parent passed the optional prop

storeVars == <<messages, sessions, currentSessionId, isLoading, mode,
               currentImage, currentImageDataUrl, apiKey>>
canvasVars == <<isModalOpen, overlay, hidden, undoStack, redoStack, lastPoint,
                imgNatural, loadedSrc, window, overlayPreviewDataUrl, handed,
                onApplySelection>>
keyVars == <<storage, storageError>>
vars == <<messages, sessions, currentSessionId, isLoading, mode, currentImage,
          currentImageDataUrl, apiKey, inflight, fetches, held, call,
          storage, storageError,
          isModalOpen, overlay, hidden, undoStack, redoStack, lastPoint,
          imgNatural, loadedSrc, window, overlayPreviewDataUrl, handed,
          onApplySelection>>

----------------------------------------------------------------------------
(* Bounds of the model *)

MaxSends == 2
MaxSessions == 2
\* snapshots kept for Undo
MaxHistory == 2

----------------------------------------------------------------------------
(* Values *)

\* null and undefined: both are falsy and the code tells them apart nowhere
Null == "null"
NoId == 0

\* a value the backend put where a string belongs (JSON number)
NonString == "<number>"

Truthy(v) == v # Null /\ v # ""

Texts == {"", " ", "a"}

\* String.prototype.trim on the texts and keys of the model
Trim(s) ==
    CASE s = " " -> ""
      [] s = " k " -> "k"
      [] OTHER -> s

ApiKeys == {"", " ", "k"}
Modes == {"design", "chat"}

\* text.slice(0, 30) + '...' ; every text of the model is shorter than 30
TitleOf(text) ==
    CASE text = "a" -> "a..."
      [] OTHER -> "..."

DefaultTitle == "New Circuit Design"
DefaultReply == "Generated circuit diagram"
FailureNotice == "Sorry, there was an error generating the circuit. Please check your API key and try again."

\* data URLs a response can carry: one that decodes, one whose base64 is malformed
GoodDataUrl == "data:image/png;base64,AAAA"
BadDataUrl == "data:image/png;base64,%%%%"
\* the data URL FileReader.readAsDataURL produces for an attached file
FileDataUrl == "data:image/png;base64,FILE"

HeifDataUrl == "data:image/heif;base64,FILE"

\* the files a user can pick: the type the browser reports for the file and
\* the data URL readAsDataURL produces for it; NoFile when the dialog is
\* cancelled (e.target.files?.[0] is undefined)
NoFile == [type |-> Null, dataUrl |-> Null]
Files ==
    {[type |-> "image/png", dataUrl |-> FileDataUrl],
     [type |-> "image/heif", dataUrl |-> HeifDataUrl],
     [type |-> "image/gif", dataUrl |-> "data:image/gif;base64,FILE"],
     [type |-> "text/plain", dataUrl |-> "data:text/plain;base64,FILE"],
     [type |-> "", dataUrl |-> "data:application/octet-stream;base64,FILE"],
     NoFile}

\* atob succeeds on the payload
Decodes(dataUrl) ==
    \/ dataUrl = GoodDataUrl
    \/ \E file \in Files \ {NoFile} : dataUrl = file.dataUrl

dataUrlToBlobUrl(dataUrl) ==
    IF dataUrl # NonString /\ Decodes(dataUrl)
    THEN CASE dataUrl = GoodDataUrl -> "blob:AAAA"
           [] dataUrl = FileDataUrl -> "blob:FILE"
           [] dataUrl = HeifDataUrl -> "blob:HEIF"
           [] OTHER -> "blob:OTHER"
    ELSE dataUrl  \* the catch at line 17: fall back to the original

----------------------------------------------------------------------------
(* Values of the canvas *)

Max(a, b) == IF a >= b THEN a ELSE b

\* the places of the image a stroke can mark
Points == {1, 2}
NoPoint == 0
\* pixels put back at another place than they were taken from
Misplaced == 99

NoSize == [w |-> 0, h |-> 0]

\* naturalWidth and naturalHeight of the images of the model
NaturalSize(image) ==
    CASE image = "blob:AAAA" -> [w |-> 8, h |-> 8]
      [] image = "blob:FILE" -> [w |-> 4, h |-> 2]
      [] image = "blob:HEIF" -> [w |-> 2, h |-> 4]
      [] OTHER -> NoSize

\* the browser can decode and show the image
Loadable(image) == NaturalSize(image) # NoSize

\* the size of the viewport in CSS pixels and its device pixel ratio
Windows == {[w |-> 3, h |-> 3, dpr |-> 1], [w |-> 6, h |-> 6, dpr |-> 2]}
DefaultWindow == [w |-> 3, h |-> 3, dpr |-> 1]

\* getBoundingClientRect of the preview image (max-w-full, max-h, object-contain):
\* the natural size, scaled down to fit the viewport
DisplayedRect(natural, viewport) ==
    IF natural = NoSize THEN NoSize
    ELSE IF natural.w <= viewport.w /\ natural.h <= viewport.h THEN natural
    ELSE IF natural.w * viewport.h >= natural.h * viewport.w
         THEN [w |-> viewport.w, h |-> Max(1, (natural.h * viewport.w) \div natural.w)]
         ELSE [w |-> Max(1, (natural.w * viewport.h) \div natural.h), h |-> viewport.h]

\* a canvas element as created: 300 by 150, transparent
DefaultCanvas == [w |-> 300, h |-> 150, px |-> {}]
\* no canvas element: the display raster exists only while the surface is open
NoCanvas == [w |-> 0, h |-> 0, px |-> {}]

----------------------------------------------------------------------------
(* The generation request and its outcomes *)

Failure(error) ==
    [success |-> FALSE, text |-> Null, imageUrl |-> Null, error |-> error]

\* what the backend can answer with status 200
Success(text, imageUrl) ==
    [success |-> TRUE, text |-> text, imageUrl |-> imageUrl, error |-> Null]

Bodies ==
    {Success("reply", GoodDataUrl), Success(Null, BadDataUrl),
     Success("reply", Null), Success(Null, NonString),
     Failure("quota exceeded")}

\* what fetch can do: reject, answer with a non-success status, answer with a body
Outcomes ==
    {[kind |-> "network", body |-> Failure("Failed to fetch")],
     [kind |-> "http", body |-> Failure("HTTP error! status: 500")]}
    \cup [kind : {"ok"}, body : Bodies]

\* every failure is caught and returned as a response with success = false
generateCircuit(outcome) ==
    IF outcome.kind = "ok" THEN outcome.body
    ELSE Failure(outcome.body.error)

\* the payload of the request sendMessage builds
Request(text, env) ==
    [prompt |-> text, currentImage |-> env.currentImageDataUrl,
     mode |-> env.mode, apiKey |-> env.apiKey, paintedImage |-> Null]

----------------------------------------------------------------------------
(* Environments: the state a callback instance captured *)

Env ==
    [currentSessionId |-> currentSessionId, mode |-> mode,
     currentImageDataUrl |-> currentImageDataUrl, apiKey |-> apiKey,
     isLoading |-> isLoading]

\* generateId, useChat.ts:49-51: a time stamp followed by random digits; the
\* model takes two ids drawn at different calls to differ.  Sessions are
\* numbered in the order they are created, messages by the request they belong to.
SessionId(ss) == Len(ss) + 1
UserMessageId(n) == 10 * (n + 1) + 1
AiMessageId(userMessage) == userMessage.id + 1

Message(id, text, sender, imageUrl, imageDataUrl) ==
    [id |-> id, text |-> text, sender |-> sender,
     imageUrl |-> imageUrl, imageDataUrl |-> imageDataUrl]

NewSession(id) == [id |-> id, title |-> DefaultTitle, messages |-> <<>>]

\* the new session put behind the existing ones
WithNewSession_AtEnd(ss, id) == Append(ss, NewSession(id))

\* line 63: setSessions(prev => [newSession, ...prev])
WithNewSession(ss, id) == <<NewSession(id)>> \o ss

Called(op, text, id, response) ==
    [op |-> op, text |-> text, id |-> id, response |-> response]

NoResponse == Failure(Null)

\* the entry removed when the key is cleared
Persist_KeepsEmpty(key) == key

\* useChat.ts:214-218: what the persist effect leaves in localStorage
Persist(key) == IF Truthy(key) THEN key ELSE Null

\* useChat.ts:33-39: the initial value of the key; raised tells whether
\* localStorage.getItem raised
LoadApiKey(stored, raised) ==
    IF ~raised /\ Truthy(stored) THEN stored ELSE ""

\* part_004:87-106: the canvas as mounted
CanvasInit ==
    /\ isModalOpen = FALSE
    /\ overlay = NoCanvas
    /\ hidden = DefaultCanvas
    /\ undoStack = <<>>
    /\ redoStack = <<>>
    /\ lastPoint = NoPoint
    /\ imgNatural = NoSize
    /\ loadedSrc = Null
    /\ window = DefaultWindow
    /\ overlayPreviewDataUrl = Null
    /\ handed = Null

Init ==
    /\ messages = <<>>
    /\ sessions = <<>>
    /\ currentSessionId = NoId
    /\ isLoading = FALSE
    /\ mode = "design"
    /\ currentImage = Null
    /\ currentImageDataUrl = Null
    /\ apiKey \in {"", " ", "k"}
    /\ inflight = {}
    /\ fetches = 0
    /\ held = Env
    /\ storage = Persist(apiKey)
    /\ storageError = FALSE
    /\ call = Called("init", "", NoId, NoResponse)
    /\ CanvasInit
    \* App renders <Canvas> without onApplySelection (App.tsx:159-165)
    /\ onApplySelection = FALSE

----------------------------------------------------------------------------
(* sendMessage, useChat.ts:89-170 *)

\* the key tested without trim()
Rejected_KeyNotTrimmed(env, text) ==
    \/ Trim(text) = ""
    \/ env.apiKey = ""
    \/ env.isLoading

\* lines 90-91: the two early returns
Rejected(env, text) ==
    \/ Trim(text) = ""
    \/ Trim(env.apiKey) = ""
    \/ env.isLoading

\* line 122
ReplyText(response) ==
    IF Truthy(response.text) THEN response.text ELSE DefaultReply

\* line 118
ResponseImageUrl(response) ==
    IF Truthy(response.imageUrl) THEN dataUrlToBlobUrl(response.imageUrl) ELSE Null

\* lines 129-133: .substring of a truthy value that is no string throws
Raises(response) ==
    Truthy(response.imageUrl) /\ response.imageUrl = NonString

\* the session given the reply without the user message
UpdateSession_ReplyOnly(ss, sessionId, text, userMessage, aiMessage) ==
    [i \in DOMAIN ss |->
        IF ss[i].id = sessionId
        THEN [ss[i] EXCEPT
                !.messages = Append(ss[i].messages, aiMessage),
                !.title = IF Len(ss[i].messages) = 0 THEN TitleOf(text) ELSE @]
        ELSE ss[i]]

\* the reply stored before the message it answers
UpdateSession_ReplyFirst(ss, sessionId, text, userMessage, aiMessage) ==
    [i \in DOMAIN ss |->
        IF ss[i].id = sessionId
        THEN [ss[i] EXCEPT
                !.messages = ss[i].messages \o <<aiMessage, userMessage>>,
                !.title = IF Len(ss[i].messages) = 0 THEN TitleOf(text) ELSE @]
        ELSE ss[i]]

\* the log of the session replaced by the new pair
UpdateSession_Replace(ss, sessionId, text, userMessage, aiMessage) ==
    [i \in DOMAIN ss |->
        IF ss[i].id = sessionId
        THEN [ss[i] EXCEPT
                !.messages = <<userMessage, aiMessage>>,
                !.title = IF Len(ss[i].messages) = 0 THEN TitleOf(text) ELSE @]
        ELSE ss[i]]

\* lines 146-155
UpdateSession(ss, sessionId, text, userMessage, aiMessage) ==
    [i \in DOMAIN ss |->
        IF ss[i].id = sessionId
        THEN [ss[i] EXCEPT
                !.messages = ss[i].messages \o <<userMessage, aiMessage>>,
                !.title = IF Len(ss[i].messages) = 0 THEN TitleOf(text) ELSE @]
        ELSE ss[i]]

\* the flag reset at the end of the try block instead of in finally
LoadingAfterCompletion_NotInFinally(raised) == raised

\* line 168: the finally block; raised tells which branch of the try ran
LoadingAfterCompletion(raised) == FALSE

\* The call up to the await of line 109.  env is the environment of the
\* callback instance that is called.
sendMessage(env, text) ==
    /\ call' = Called("sendMessage", text, NoId, NoResponse)
    /\ IF Rejected(env, text)
       THEN UNCHANGED <<storeVars, inflight, fetches>>
       ELSE LET implicit == env.currentSessionId = NoId
                sessionId == IF implicit THEN SessionId(sessions)
                             ELSE env.currentSessionId
                userMessage == Message(UserMessageId(fetches), text, "user",
                                       Null, Null)
            IN  /\ fetches < MaxSends
                /\ implicit => Len(sessions) < MaxSessions
                \* lines 93-96: createNewSession() when no session is active
                /\ sessions' = IF implicit
                               THEN WithNewSession(sessions, sessionId)
                               ELSE sessions
                /\ currentSessionId' = IF implicit THEN sessionId ELSE currentSessionId
                /\ currentImage' = IF implicit THEN Null ELSE currentImage
                /\ currentImageDataUrl' = IF implicit THEN Null ELSE currentImageDataUrl
                \* line 105, after the setMessages([]) of createNewSession
                /\ messages' = Append(IF implicit THEN <<>> ELSE messages, userMessage)
                /\ isLoading' = TRUE
                \* lines 109-115
                /\ fetches' = fetches + 1
                /\ inflight' = inflight \cup
                       {[sessionId |-> sessionId, text |-> text,
                         userMessage |-> userMessage,
                         request |-> Request(text, env)]}
                /\ UNCHANGED <<mode, apiKey>>

\* sendMessage called through the instance of the latest render
SendMessage ==
    /\ \E text \in Texts : sendMessage(Env, text)
    /\ UNCHANGED <<held, canvasVars, keyVars>>

\* The continuation after the await: lines 117-169.
Complete ==
    /\ \E r \in inflight, outcome \in Outcomes :
        LET response == generateCircuit(outcome)
            id == AiMessageId(r.userMessage)
            imageUrl == ResponseImageUrl(response)
            aiMessage == Message(id, ReplyText(response), "ai", imageUrl,
                                 response.imageUrl)
            errorMessage == Message(id, FailureNotice, "ai", Null, Null)
        IN  /\ inflight' = inflight \ {r}
            /\ call' = Called("complete", "", NoId, response)
            /\ isLoading' = LoadingAfterCompletion(Raises(response))
            /\ IF Raises(response)
               THEN \* lines 158-166
                    /\ messages' = Append(messages, errorMessage)
                    /\ UNCHANGED <<sessions, currentImage, currentImageDataUrl>>
               ELSE /\ messages' = Append(messages, aiMessage)
                    /\ IF Truthy(imageUrl)
                       THEN /\ currentImage' = imageUrl
                            /\ currentImageDataUrl' = response.imageUrl
                       ELSE UNCHANGED <<currentImage, currentImageDataUrl>>
                    /\ sessions' = UpdateSession(sessions, r.sessionId, r.text,
                                                 r.userMessage, aiMessage)
    /\ UNCHANGED <<currentSessionId, mode, apiKey, fetches, held, canvasVars, keyVars>>

----------------------------------------------------------------------------
(* The other operations of the store *)

\* createNewSession without the setMessages([]) of line 65
CreateNewSession_KeepsView ==
    /\ Len(sessions) < MaxSessions
    /\ LET sessionId == SessionId(sessions)
       IN  /\ sessions' = WithNewSession(sessions, sessionId)
           /\ currentSessionId' = sessionId
           /\ call' = Called("createNewSession", "", sessionId, NoResponse)
    /\ currentImage' = Null
    /\ currentImageDataUrl' = Null
    /\ UNCHANGED <<messages, isLoading, mode, apiKey, inflight, fetches, held,
                   canvasVars, keyVars>>

\* useChat.ts:53-70; the id of the call record is the value returned at line 69
CreateNewSession ==
    /\ Len(sessions) < MaxSessions
    /\ LET sessionId == SessionId(sessions)
       IN  /\ sessions' = WithNewSession(sessions, sessionId)
           /\ currentSessionId' = sessionId
           /\ call' = Called("createNewSession", "", sessionId, NoResponse)
    /\ messages' = <<>>
    /\ currentImage' = Null
    /\ currentImageDataUrl' = Null
    /\ UNCHANGED <<isLoading, mode, apiKey, inflight, fetches, held, canvasVars, keyVars>>

\* useChat.ts:172-176
ClearCanvas ==
    /\ Len(sessions) < MaxSessions
    /\ LET sessionId == SessionId(sessions)
       IN  /\ sessions' = WithNewSession(sessions, sessionId)
           /\ currentSessionId' = sessionId
           /\ call' = Called("clearCanvas", "", NoId, NoResponse)
    /\ messages' = <<>>
    /\ currentImage' = Null
    /\ currentImageDataUrl' = Null
    /\ UNCHANGED <<isLoading, mode, apiKey, inflight, fetches, held, canvasVars, keyVars>>

\* sessions.find(s => s.id === sessionId): index of the first match, 0 if none
FindSession(ss, sessionId) ==
    IF \E i \in DOMAIN ss : ss[i].id = sessionId
    THEN CHOOSE i \in DOMAIN ss :
            /\ ss[i].id = sessionId
            /\ \A j \in DOMAIN ss : ss[j].id = sessionId => i <= j
    ELSE 0

\* the scan without reverse(): the oldest message with an image
LastImageMessage_Oldest(log) ==
    IF \E i \in DOMAIN log : Truthy(log[i].imageUrl)
    THEN CHOOSE i \in DOMAIN log :
            /\ Truthy(log[i].imageUrl)
            /\ \A j \in DOMAIN log : Truthy(log[j].imageUrl) => i <= j
    ELSE 0

\* lines 79-82: index of the newest message with a truthy imageUrl, 0 if none
LastImageMessage(log) ==
    IF \E i \in DOMAIN log : Truthy(log[i].imageUrl)
    THEN CHOOSE i \in DOMAIN log :
            /\ Truthy(log[i].imageUrl)
            /\ \A j \in DOMAIN log : Truthy(log[j].imageUrl) => j <= i
    ELSE 0

OrNull(v) == IF Truthy(v) THEN v ELSE Null

\* loadSession without the test of line 74
LoadSession_Unchecked ==
    /\ \E sessionId \in 1..(Len(sessions) + 1) :
        LET found == FindSession(sessions, sessionId)
            log == IF found # 0 THEN sessions[found].messages ELSE <<>>
            last == LastImageMessage(log)
        IN  /\ call' = Called("loadSession", "", sessionId, NoResponse)
            /\ currentSessionId' = sessionId
            /\ messages' = log
            /\ currentImage' =
                   IF last # 0 THEN OrNull(log[last].imageUrl) ELSE Null
            /\ currentImageDataUrl' =
                   IF last # 0 THEN OrNull(log[last].imageDataUrl) ELSE Null
    /\ UNCHANGED <<sessions, isLoading, mode, apiKey, inflight, fetches,
                   held, canvasVars, keyVars>>

\* loadSession without the setCurrentImageDataUrl of line 84
LoadSession_KeepsSource ==
    /\ \E sessionId \in 1..(Len(sessions) + 1) :
        LET found == FindSession(sessions, sessionId)
        IN  /\ call' = Called("loadSession", "", sessionId, NoResponse)
            /\ IF found # 0
               THEN LET log == sessions[found].messages
                        last == LastImageMessage(log)
                    IN  /\ currentSessionId' = sessionId
                        /\ messages' = log
                        /\ currentImage' =
                               IF last # 0 THEN OrNull(log[last].imageUrl) ELSE Null
                        /\ UNCHANGED currentImageDataUrl
               ELSE UNCHANGED <<currentSessionId, messages, currentImage,
                                currentImageDataUrl>>
    /\ UNCHANGED <<sessions, isLoading, mode, apiKey, inflight, fetches,
                   held, canvasVars, keyVars>>

\* useChat.ts:72-86
LoadSession ==
    /\ \E sessionId \in 1..(Len(sessions) + 1) :
        LET found == FindSession(sessions, sessionId)
        IN  /\ call' = Called("loadSession", "", sessionId, NoResponse)
            /\ IF found # 0
               THEN LET log == sessions[found].messages
                        last == LastImageMessage(log)
                    IN  /\ currentSessionId' = sessionId
                        /\ messages' = log
                        /\ currentImage' =
                               IF last # 0 THEN OrNull(log[last].imageUrl) ELSE Null
                        /\ currentImageDataUrl' =
                               IF last # 0 THEN OrNull(log[last].imageDataUrl) ELSE Null
               ELSE UNCHANGED <<currentSessionId, messages, currentImage,
                                currentImageDataUrl>>
    /\ UNCHANGED <<sessions, isLoading, mode, apiKey, inflight, fetches,
                   held, canvasVars, keyVars>>

\* the attached image also put in the view as a user message
AttachImage_AsMessage ==
    /\ currentImageDataUrl' = FileDataUrl
    /\ currentImage' = dataUrlToBlobUrl(FileDataUrl)
    /\ messages' = Append(messages, Message(1, "", "user",
                                            dataUrlToBlobUrl(FileDataUrl),
                                            FileDataUrl))
    /\ call' = Called("attachImage", "", NoId, NoResponse)
    /\ UNCHANGED <<sessions, currentSessionId, isLoading, mode, apiKey,
                   inflight, fetches, held, canvasVars, keyVars>>

\* useChat.ts:190-209: the onload handler of the FileReader
AttachImage ==
    /\ currentImageDataUrl' = FileDataUrl
    /\ currentImage' = dataUrlToBlobUrl(FileDataUrl)
    /\ call' = Called("attachImage", "", NoId, NoResponse)
    /\ UNCHANGED <<messages, sessions, currentSessionId, isLoading, mode, apiKey,
                   inflight, fetches, held, canvasVars, keyVars>>

SetMode ==
    /\ \E m \in Modes : mode' = m /\ call' = Called("setMode", m, NoId, NoResponse)
    /\ UNCHANGED <<messages, sessions, currentSessionId, isLoading, currentImage,
                   currentImageDataUrl, apiKey, inflight, fetches, held,
                   canvasVars, keyVars>>

Next ==
    \/ SendMessage
    \/ Complete
    \/ CreateNewSession
    \/ ClearCanvas
    \/ LoadSession
    \/ AttachImage

Spec == Init /\ [][Next]_vars

\* A request that was issued completes: fetch settles, with a response or an
\* error, and the continuation of the await then runs.
FairSpec == Init /\ [][Next]_vars /\ WF_vars(Complete)

----------------------------------------------------------------------------
(* Callers that keep a callback instance across renders *)

\* a caller takes the sendMessage instance of the current render
HoldInstance ==
    /\ held' = Env
    /\ held # Env
    /\ call' = Called("hold", "", NoId, NoResponse)
    /\ UNCHANGED <<storeVars, inflight, fetches, canvasVars, keyVars>>

\* and calls it, now or after later renders
SendMessageHeld ==
    /\ \E text \in Texts : sendMessage(held, text)
    /\ UNCHANGED <<held, canvasVars, keyVars>>

StaleNext ==
    \/ Next
    \/ HoldInstance
    \/ SendMessageHeld

StaleSpec == Init /\ [][StaleNext]_vars

\* Requests issued through kept instances while others are pending, and
\* completing in any order
OverlapNext ==
    \/ HoldInstance
    \/ SendMessageHeld
    \/ Complete
    \/ CreateNewSession

OverlapSpec == Init /\ [][OverlapNext]_vars

----------------------------------------------------------------------------
(* The file input of the chat box, ChatInterface.tsx:111-135 *)

\* any image type let through
Allowed_AnyImage(type) ==
    type \in {"image/png", "image/jpeg", "image/webp", "image/heic",
              "image/heif", "image/gif"}

\* lines 119-126: allowed.includes(file.type)
Allowed(type) ==
    type \in {"image/png", "image/jpeg", "image/webp", "image/heic",
              "image/heif"}

\* The onAttachImage prop (ChatInterface.tsx:10, required) bound to the
\* attachImage of the store: the file is read and the onload handler of
\* useChat.ts:194-202 runs.
onAttachImage(file) ==
    /\ currentImageDataUrl' = file.dataUrl
    /\ currentImage' = dataUrlToBlobUrl(file.dataUrl)
    /\ UNCHANGED <<messages, sessions, currentSessionId, isLoading, mode,
                   apiKey, inflight, fetches>>

\* lines 116-134: the onChange handler of the file input
HandleFileChange ==
    /\ \E file \in Files :
        /\ call' = Called("handleFileChange", file.type, NoId, NoResponse)
        /\ IF file = NoFile
           THEN UNCHANGED <<storeVars, inflight, fetches>>
           ELSE IF ~Allowed(file.type)
           THEN UNCHANGED <<storeVars, inflight, fetches>>
           ELSE onAttachImage(file)
    /\ UNCHANGED <<held, canvasVars, keyVars>>

\* the store driven through the chat box
FileNext ==
    \/ HandleFileChange
    \/ SendMessage
    \/ Complete
    \/ ClearCanvas

FileSpec == Init /\ [][FileNext]_vars

----------------------------------------------------------------------------
(* The API key and its copy in localStorage, useChat.ts:33-39 and 211-222 *)

\* setApiKey (Sidebar part_003:98, App.tsx:221) and the persist effect that
\* runs after the render it causes; raised tells whether localStorage raised,
\* which the effect swallows (lines 219-221)
SetApiKey ==
    /\ \E key \in ApiKeys, raised \in BOOLEAN :
        /\ key # apiKey
        /\ apiKey' = key
        /\ storage' = IF raised THEN storage ELSE Persist(key)
        /\ storageError' = raised
        /\ call' = Called("setApiKey", key, NoId, NoResponse)
    /\ UNCHANGED <<messages, sessions, currentSessionId, isLoading, mode,
                   currentImage, currentImageDataUrl, inflight, fetches, held,
                   canvasVars>>

\* The page is loaded again: the hook is constructed anew (lines 24-41), the
\* key is read from localStorage and the persist effect runs once.  Requests
\* of the page before are gone with it.
Reload ==
    /\ \E raised \in BOOLEAN :
        /\ apiKey' = LoadApiKey(storage, raised)
        /\ storage' = IF raised THEN storage ELSE Persist(apiKey')
        /\ storageError' = raised
    /\ messages' = <<>>
    /\ sessions' = <<>>
    /\ currentSessionId' = NoId
    /\ isLoading' = FALSE
    /\ mode' = "design"
    /\ currentImage' = Null
    /\ currentImageDataUrl' = Null
    /\ inflight' = {}
    /\ call' = Called("reload", "", NoId, NoResponse)
    /\ UNCHANGED <<fetches, held, canvasVars>>

\* what localStorage can hold under 'apiKey' when the page loads
StoredValues == {Null, "", " ", "k"}

KeyInit ==
    /\ messages = <<>>
    /\ sessions = <<>>
    /\ currentSessionId = NoId
    /\ isLoading = FALSE
    /\ mode = "design"
    /\ currentImage = Null
    /\ currentImageDataUrl = Null
    /\ \E stored \in StoredValues, raised \in BOOLEAN :
        /\ apiKey = LoadApiKey(stored, raised)
        /\ storage = IF raised THEN stored ELSE Persist(apiKey)
        /\ storageError = raised
    /\ inflight = {}
    /\ fetches = 0
    /\ held = Env
    /\ call = Called("init", "", NoId, NoResponse)
    /\ CanvasInit
    /\ onApplySelection = FALSE

KeyNext ==
    \/ SetApiKey
    \/ Reload
    \/ SendMessage
    \/ Complete

KeySpec == KeyInit /\ [][KeyNext]_vars

----------------------------------------------------------------------------
(* The selective-edit surface of the canvas, part_004:65-540 *)

otherVars == <<keyVars, storeVars, inflight, fetches, held>>

\* getImageData(0, 0, width, height): a copy of the whole raster
getImageData(raster) == [w |-> raster.w, h |-> raster.h, px |-> raster.px]

\* putImageData(data, 0, 0): the data of a raster of the same size replaces
\* the content; data of another size lands on other pixels
putImageData(raster, data) ==
    IF data.w = raster.w /\ data.h = raster.h
    THEN [raster EXCEPT !.px = data.px]
    ELSE [raster EXCEPT !.px = {Misplaced}]

\* canvas.toDataURL('image/png'): the PNG of the raster, its size and pixels
toDataURL(raster) ==
    "data:image/png;base64," \o ToString(getImageData(raster))

\* lines 137-144: the display raster sized to the displayed image in device
\* pixels
OverlaySized(rect, dpr) ==
    [w |-> Max(1, rect.w * dpr), h |-> Max(1, rect.h * dpr), px |-> {}]

\* the source raster sized like the display raster
HiddenSized_AsDisplayed(naturalWidth, naturalHeight, captured, rect, dpr) ==
    OverlaySized(rect, dpr)

\* lines 149-154: the source raster sized to the natural size of the image,
\* else to the size remembered in imgNatural, else to the displayed size
HiddenSized(naturalWidth, naturalHeight, captured, rect, dpr) ==
    [w |-> IF naturalWidth # 0 THEN naturalWidth
           ELSE IF captured.w # 0 THEN captured.w
           ELSE Max(1, rect.w * dpr),
     h |-> IF naturalHeight # 0 THEN naturalHeight
           ELSE IF captured.h # 0 THEN captured.h
           ELSE Max(1, rect.h * dpr),
     px |-> {}]

\* lines 131-160, run in the animation frame after the surface opened or the
\* image loaded; complete tells whether the preview image has its natural
\* size by then
syncCanvasSizes(complete) ==
    LET natural == IF complete THEN NaturalSize(currentImage) ELSE NoSize
        rect == IF complete THEN DisplayedRect(natural, window) ELSE NoSize
    IN  /\ overlay' = OverlaySized(rect, window.dpr)
        /\ hidden' = HiddenSized(natural.w, natural.h, imgNatural, rect,
                                 window.dpr)
        /\ undoStack' = <<>>
        /\ redoStack' = <<>>

\* lines 119-124 and the animation frame they ask for
HandleSelectClick ==
    /\ ~isModalOpen
    /\ call' = Called("handleSelectClick", "", NoId, NoResponse)
    /\ IF Truthy(currentImage)
       THEN /\ isModalOpen' = TRUE
            /\ \E complete \in BOOLEAN :
                /\ complete => Loadable(currentImage)
                /\ syncCanvasSizes(complete)
       ELSE UNCHANGED <<isModalOpen, overlay, hidden, undoStack, redoStack>>
    /\ UNCHANGED <<otherVars, lastPoint, imgNatural, loadedSrc, window,
                   overlayPreviewDataUrl, handed, onApplySelection>>

\* lines 126-129 and the animation frame they ask for: the load event of the
\* preview image, once for each image shown while the surface is open
HandleImageLoaded ==
    /\ isModalOpen
    /\ loadedSrc # currentImage
    /\ Loadable(currentImage)
    /\ loadedSrc' = currentImage
    /\ imgNatural' = NaturalSize(currentImage)
    /\ syncCanvasSizes(TRUE)
    /\ call' = Called("handleImageLoaded", "", NoId, NoResponse)
    /\ UNCHANGED <<otherVars, isModalOpen, lastPoint, window,
                   overlayPreviewDataUrl, handed, onApplySelection>>

\* the two rasters and the two stacks, as the handlers below read and leave
\* them
Here ==
    [overlay |-> overlay, hidden |-> hidden,
     undoStack |-> undoStack, redoStack |-> redoStack]

Becomes(st) ==
    /\ overlay' = st.overlay
    /\ hidden' = st.hidden
    /\ undoStack' = st.undoStack
    /\ redoStack' = st.redoStack

\* the ImageData of both rasters
Snapshot(st) ==
    [overlay |-> getImageData(st.overlay), hidden |-> getImageData(st.hidden)]

\* the snapshot pushed without dropping the states kept for Redo
snapshotState_KeepsRedo(st) ==
    [st EXCEPT !.undoStack = Append(@, Snapshot(st))]

\* lines 162-179.  getImageData raises for a tainted raster or an empty
\* rectangle; nothing is ever drawn from an image into these rasters and
\* both have a width and a height of at least 1, so the catch is not reached.
snapshotState(st) ==
    [st EXCEPT !.undoStack = Append(@, Snapshot(st)), !.redoStack = <<>>]

\* a mark painted on the display raster only
Paint_OverlayOnly(st, points) ==
    [st EXCEPT !.overlay.px = @ \cup points]

\* a mark painted on both rasters, on each at its own scale (getOverlayPoint
\* and getHiddenPoint, lines 227-247)
Paint(st, points) ==
    [st EXCEPT !.overlay.px = @ \cup points, !.hidden.px = @ \cup points]

\* clearRect over both rasters
Blank(st) == [st EXCEPT !.overlay.px = {}, !.hidden.px = {}]

\* lines 249-276: pointer-down
StartDraw ==
    /\ isModalOpen
    /\ Len(undoStack) < MaxHistory
    /\ \E p \in Points :
        /\ Becomes(Paint(snapshotState(Here), {p}))
        /\ lastPoint' = p
    /\ call' = Called("startDraw", "", NoId, NoResponse)
    /\ UNCHANGED <<otherVars, isModalOpen, imgNatural, loadedSrc, window,
                   overlayPreviewDataUrl, handed, onApplySelection>>

\* lines 278-313: pointer-move; a segment from the last point to this one
DrawMove ==
    /\ isModalOpen
    /\ lastPoint # NoPoint
    /\ \E p \in Points :
        /\ Becomes(Paint(Here, {lastPoint, p}))
        /\ lastPoint' = p
    /\ call' = Called("drawMove", "", NoId, NoResponse)
    /\ UNCHANGED <<otherVars, isModalOpen, imgNatural, loadedSrc, window,
                   overlayPreviewDataUrl, handed, onApplySelection>>

\* lines 315-321: pointer-up or pointer-leave
EndDraw ==
    /\ isModalOpen
    /\ lastPoint' = NoPoint
    /\ call' = Called("endDraw", "", NoId, NoResponse)
    /\ UNCHANGED <<otherVars, isModalOpen, overlay, hidden, undoStack,
                   redoStack, imgNatural, loadedSrc, window,
                   overlayPreviewDataUrl, handed, onApplySelection>>

\* lines 323-331
ClearOverlay ==
    /\ isModalOpen
    /\ Len(undoStack) < MaxHistory
    /\ Becomes(Blank(snapshotState(Here)))
    /\ call' = Called("clearOverlay", "", NoId, NoResponse)
    /\ UNCHANGED <<otherVars, isModalOpen, lastPoint, imgNatural, loadedSrc,
                   window, overlayPreviewDataUrl, handed, onApplySelection>>

\* restoreState that puts back the display raster only
restoreState_OverlayOnly(st, state) ==
    [st EXCEPT !.overlay = putImageData(@, state.overlay)]

\* lines 181-191
restoreState(st, state) ==
    [st EXCEPT !.overlay = putImageData(@, state.overlay),
               !.hidden = putImageData(@, state.hidden)]

\* handleUndo that drops the current state instead of keeping it for Redo
handleUndo_NoRedo(st) ==
    IF st.undoStack = <<>> THEN st
    ELSE restoreState(
            [st EXCEPT !.undoStack = SubSeq(@, 1, Len(@) - 1)],
            st.undoStack[Len(st.undoStack)])

\* lines 193-208
handleUndo(st) ==
    IF st.undoStack = <<>> THEN st
    ELSE restoreState(
            [st EXCEPT !.undoStack = SubSeq(@, 1, Len(@) - 1),
                       !.redoStack = Append(@, Snapshot(st))],
            st.undoStack[Len(st.undoStack)])

\* lines 210-225
handleRedo(st) ==
    IF st.redoStack = <<>> THEN st
    ELSE restoreState(
            [st EXCEPT !.redoStack = SubSeq(@, 1, Len(@) - 1),
                       !.undoStack = Append(@, Snapshot(st))],
            st.redoStack[Len(st.redoStack)])

\* the Undo button (line 484) or the keyboard chord (lines 348-367)
HandleUndo ==
    /\ isModalOpen
    /\ Becomes(handleUndo(Here))
    /\ call' = Called("handleUndo", "", NoId, NoResponse)
    /\ UNCHANGED <<otherVars, isModalOpen, lastPoint, imgNatural, loadedSrc,
                   window, overlayPreviewDataUrl, handed, onApplySelection>>

\* the Redo button (line 492) or the keyboard chords
HandleRedo ==
    /\ isModalOpen
    /\ Becomes(handleRedo(Here))
    /\ call' = Called("handleRedo", "", NoId, NoResponse)
    /\ UNCHANGED <<otherVars, isModalOpen, lastPoint, imgNatural, loadedSrc,
                   window, overlayPreviewDataUrl, handed, onApplySelection>>

\* applySelection that closes the surface whether or not the export raised
ApplySelection_ClosesAnyway ==
    /\ isModalOpen
    /\ \E raised \in BOOLEAN :
        /\ call' = Called("applySelection",
                          IF onApplySelection /\ raised THEN "raised" ELSE "",
                          NoId, NoResponse)
        /\ IF onApplySelection
           THEN /\ isModalOpen' = FALSE
                /\ overlay' = NoCanvas
                /\ loadedSrc' = Null
                /\ IF raised
                   THEN UNCHANGED <<overlayPreviewDataUrl, handed>>
                   ELSE /\ overlayPreviewDataUrl' = toDataURL(hidden)
                        /\ handed' = toDataURL(hidden)
           ELSE UNCHANGED <<overlayPreviewDataUrl, handed, isModalOpen,
                            overlay, loadedSrc>>
    /\ UNCHANGED <<otherVars, hidden, undoStack, redoStack, lastPoint,
                   imgNatural, window, onApplySelection>>

\* lines 333-346; raised tells whether toDataURL raises, which the call
\* record keeps.  Closing the surface unmounts the display raster and the
\* preview image.
ApplySelection ==
    /\ isModalOpen
    /\ \E raised \in BOOLEAN :
        /\ call' = Called("applySelection",
                          IF onApplySelection /\ raised THEN "raised" ELSE "",
                          NoId, NoResponse)
        /\ IF onApplySelection /\ ~raised
           THEN /\ overlayPreviewDataUrl' = toDataURL(hidden)
                /\ handed' = toDataURL(hidden)
                /\ isModalOpen' = FALSE
                /\ overlay' = NoCanvas
                /\ loadedSrc' = Null
           ELSE UNCHANGED <<overlayPreviewDataUrl, handed, isModalOpen,
                            overlay, loadedSrc>>
    /\ UNCHANGED <<otherVars, hidden, undoStack, redoStack, lastPoint,
                   imgNatural, window, onApplySelection>>

\* lines 441 and 450: the backdrop or the close button
CloseModal ==
    /\ isModalOpen
    /\ isModalOpen' = FALSE
    /\ overlay' = NoCanvas
    /\ loadedSrc' = Null
    /\ call' = Called("closeModal", "", NoId, NoResponse)
    /\ UNCHANGED <<otherVars, hidden, undoStack, redoStack, lastPoint,
                   imgNatural, window, overlayPreviewDataUrl, handed,
                   onApplySelection>>

\* The window is resized, or moved to a screen of another pixel ratio.  The
\* canvas listens to no resize event: nothing of its state changes, only the
\* size the image is displayed at.
WindowResize ==
    /\ \E size \in Windows : size # window /\ window' = size
    /\ call' = Called("resize", "", NoId, NoResponse)
    /\ UNCHANGED <<otherVars, isModalOpen, overlay, hidden, undoStack,
                   redoStack, lastPoint, imgNatural, loadedSrc,
                   overlayPreviewDataUrl, handed, onApplySelection>>

\* the overlayPreviewDataUrl prop: no parent under src renders the Canvas
\* with it (App.tsx:53-58 and 159-165, part_001:91-97)
overlayFromParent == Null

\* part_004:373 and 414-420: the overlay the main canvas shows above the
\* current image, Null when it shows none
ShownOverlay ==
    IF ~Truthy(currentImage) THEN Null
    ELSE IF Truthy(overlayFromParent) THEN overlayFromParent
    ELSE IF Truthy(overlayPreviewDataUrl) THEN overlayPreviewDataUrl
    ELSE Null

\* The canvas under a parent that may pass onApplySelection.
EditInit ==
    /\ messages = <<>>
    /\ sessions = <<>>
    /\ currentSessionId = NoId
    /\ isLoading = FALSE
    /\ mode = "design"
    /\ currentImage = Null
    /\ currentImageDataUrl = Null
    /\ apiKey = "k"
    /\ inflight = {}
    /\ fetches = 0
    /\ held = Env
    /\ storage = Persist(apiKey)
    /\ storageError = FALSE
    /\ call = Called("init", "", NoId, NoResponse)
    /\ CanvasInit
    /\ onApplySelection \in BOOLEAN

EditNext ==
    \/ SendMessage
    \/ Complete
    \/ AttachImage
    \/ HandleSelectClick
    \/ HandleImageLoaded
    \/ StartDraw
    \/ ApplySelection
    \/ CloseModal

EditSpec == EditInit /\ [][EditNext]_vars

\* The surface alone, over an attached image.
OverlayInit ==
    /\ messages = <<>>
    /\ sessions = <<>>
    /\ currentSessionId = NoId
    /\ isLoading = FALSE
    /\ mode = "design"
    /\ currentImage = Null
    /\ currentImageDataUrl = Null
    /\ apiKey = "k"
    /\ inflight = {}
    /\ fetches = 0
    /\ held = Env
    /\ storage = Persist(apiKey)
    /\ storageError = FALSE
    /\ call = Called("init", "", NoId, NoResponse)
    /\ CanvasInit
    /\ onApplySelection = FALSE

OverlayNext ==
    \/ AttachImage
    \/ HandleSelectClick
    \/ HandleImageLoaded
    \/ StartDraw
    \/ DrawMove
    \/ EndDraw
    \/ ClearOverlay
    \/ HandleUndo
    \/ HandleRedo
    \/ CloseModal

OverlaySpec == OverlayInit /\ [][OverlayNext]_vars

\* Strokes drawn on the surface once it is open and its image loaded, while
\* nothing has been undone
FreshStroke ==
    /\ loadedSrc = currentImage
    /\ redoStack = <<>>
    /\ \/ StartDraw
       \/ DrawMove
       \/ EndDraw

\* Undo once the stroke is finished
UndoAfterStrokes ==
    /\ lastPoint = NoPoint
    /\ HandleUndo

\* the surface closed with no stroke under way
CloseAfterStrokes ==
    /\ lastPoint = NoPoint
    /\ CloseModal

\* The surface opened, some strokes drawn, then Undo and nothing else
UndoNext ==
    \/ AttachImage
    \/ HandleSelectClick
    \/ HandleImageLoaded
    \/ FreshStroke
    \/ UndoAfterStrokes
    \/ CloseAfterStrokes

UndoSpec == OverlayInit /\ [][UndoNext]_vars

\* The surface over images of several sizes, in a window that changes
SizeInit ==
    /\ messages = <<>>
    /\ sessions = <<>>
    /\ currentSessionId = NoId
    /\ isLoading = FALSE
    /\ mode = "design"
    /\ currentImage = Null
    /\ currentImageDataUrl = Null
    /\ apiKey = "k"
    /\ inflight = {}
    /\ fetches = 0
    /\ held = Env
    /\ storage = Persist(apiKey)
    /\ storageError = FALSE
    /\ call = Called("init", "", NoId, NoResponse)
    /\ CanvasInit
    /\ onApplySelection = TRUE

SizeNext ==
    \/ HandleFileChange
    \/ HandleSelectClick
    \/ HandleImageLoaded
    \/ StartDraw
    \/ HandleUndo
    \/ ApplySelection
    \/ CloseModal
    \/ WindowResize

SizeSpec == SizeInit /\ [][SizeNext]_vars

\* The store and the surface together: the operations of the store while the
\* surface is opened and closed
SurfaceNext ==
    \/ Next
    \/ HandleSelectClick
    \/ CloseModal

SurfaceSpec == Init /\ [][SurfaceNext]_vars

----------------------------------------------------------------------------
(* Properties *)

IsPrefix(a, b) == Len(a) <= Len(b) /\ SubSeq(b, 1, Len(a)) = a
Last(log) == log[Len(log)]
LogOf(ss, id) == ss[FindSession(ss, id)].messages
Known(ss, id) == \E i \in DOMAIN ss : ss[i].id = id
ImagePair == <<currentImage, currentImageDataUrl>>

\* the display URL shows the image the data URL encodes: it is the object URL
\* made from it, or the data URL itself
SameImage(display, dataUrl) ==
    \/ display = dataUrl
    \/ Decodes(dataUrl) /\ display = dataUrlToBlobUrl(dataUrl)

\* C1: a sendMessage call made while an earlier generation request is still in
\* flight appends no message to the view or to any session and issues no
\* request, whichever callback instance is called.
C1_PendingSendIsNoOp ==
    [][(call'.op = "sendMessage" /\ inflight # {})
        => UNCHANGED <<messages, sessions, fetches>>]_vars

\* C2: the pending flag never stays set: whenever it is true it is false again
\* later, given that the request completes (with a response, a failure or an
\* exception while the response is processed).
C2_FlagReleased == isLoading ~> ~isLoading

C2_Witness ==
    /\ call.op = "complete"
    /\ Raises(call.response)
    /\ ~isLoading
    /\ inflight = {}

\* C3: when the request fails, the completion appends exactly one AI message
\* whose text is the fixed failure notice, and keeps what the view held.
C3_FailureAppendsNotice ==
    [][(call'.op = "complete" /\ ~call'.response.success)
        => /\ Len(messages') = Len(messages) + 1
           /\ IsPrefix(messages, messages')
           /\ Last(messages').sender = "ai"
           /\ Last(messages').text = FailureNotice]_vars

\* C4: the messages view is the log of the active session, and empty when no
\* session is active.
C4_ViewIsActiveLog ==
    messages = IF currentSessionId = NoId THEN <<>>
               ELSE LogOf(sessions, currentSessionId)

\* C5: a sendMessage call with an empty or whitespace-only text, or made while
\* the API key is empty or whitespace-only, changes nothing in the store,
\* creates no session and issues no request.
C5_RejectionMutatesNothing ==
    [][(call'.op = "sendMessage"
        /\ (Trim(call'.text) = "" \/ Trim(apiKey) = ""))
        => UNCHANGED <<storeVars, fetches, inflight>>]_vars

C5_Witness ==
    /\ call.op = "sendMessage"
    /\ call.text = "a"
    /\ apiKey = " "
    /\ currentImage # Null

C7_LoadSession ==
    [][call'.op = "loadSession"
        => IF Known(sessions, call'.id)
           THEN LET log == LogOf(sessions, call'.id)
                    withImage == {i \in DOMAIN log : log[i].imageUrl # Null}
                IN  /\ currentSessionId' = call'.id
                    /\ messages' = log
                    /\ sessions' = sessions
                    /\ IF withImage = {}
                       THEN currentImage' = Null /\ currentImageDataUrl' = Null
                       ELSE \E i \in withImage :
                              /\ \A j \in withImage : j <= i
                              /\ currentImage' = log[i].imageUrl
                              /\ currentImageDataUrl' = log[i].imageDataUrl
           ELSE UNCHANGED <<storeVars, fetches, inflight>>]_vars

C7_Witness ==
    /\ call.op = "loadSession"
    /\ currentSessionId = call.id
    /\ Len(messages) = 4
    /\ messages[2].imageUrl = "blob:AAAA"
    /\ messages[4].imageUrl = BadDataUrl
    /\ currentImage = BadDataUrl

C7_WitnessUnknown ==
    /\ call.op = "loadSession"
    /\ ~Known(sessions, call.id)
    /\ currentImage # Null

\* C8 (the clause about the start of a call): the start of a sendMessage call
\* leaves the current image pair unchanged.
C8_SendStartKeepsImage ==
    [][call'.op = "sendMessage" => ImagePair' = ImagePair]_vars

\* C8 (whole): the current image pair changes only when a successful response
\* with an image arrives, in attachImage, in clearCanvas and in loadSession.
C8_ImageChangesOnlyIn ==
    [][ImagePair' # ImagePair
        => \/ call'.op \in {"attachImage", "clearCanvas", "loadSession"}
           \/ /\ call'.op = "complete"
              /\ call'.response.success
              /\ Truthy(call'.response.imageUrl)]_vars

\* C9: once Apply has exported a mask, the next generation request carries it
\* as painted_image, next to the prompt, the current image source data, the
\* mode and the API key.  (Stated for the first request of the store, which is
\* the next one after any Apply before it.)
C9_NextRequestCarriesMask ==
    [][(call'.op = "sendMessage" /\ fetches = 0 /\ fetches' = 1
        /\ handed # Null /\ hidden.px # {} /\ handed = toDataURL(hidden))
        => \E r \in inflight' :
             r.request = [prompt |-> call'.text,
                          currentImage |-> currentImageDataUrl,
                          mode |-> mode, apiKey |-> apiKey,
                          paintedImage |-> handed]]_vars

\* C10: clearCanvas leaves the current image pair null, a new empty session at
\* the front of the list and active, the view empty, and every session that
\* existed before as it was.
C10_ClearCanvas ==
    [][call'.op = "clearCanvas"
        => /\ currentImage' = Null
           /\ currentImageDataUrl' = Null
           /\ messages' = <<>>
           /\ Len(sessions') = Len(sessions) + 1
           /\ sessions'[1].messages = <<>>
           /\ sessions'[1].id = currentSessionId'
           /\ ~Known(sessions, sessions'[1].id)
           /\ \A i \in DOMAIN sessions : sessions'[i + 1] = sessions[i]]_vars

C10_Witness ==
    /\ call.op = "clearCanvas"
    /\ Len(sessions) = 2
    /\ Len(sessions[2].messages) = 2
    /\ sessions[2].messages[2].imageUrl # Null
    /\ currentImage = Null

C12_AttachImageFrame ==
    [][call'.op = "attachImage"
        => /\ currentImageDataUrl' = FileDataUrl
           /\ SameImage(currentImage', FileDataUrl)
           /\ UNCHANGED <<messages, sessions, currentSessionId, isLoading,
                          mode, apiKey, fetches, inflight>>]_vars

C12_Witness ==
    /\ call.op = "attachImage"
    /\ currentImage = "blob:FILE"
    /\ currentImageDataUrl = FileDataUrl
    /\ isLoading
    /\ Len(messages) = 3
    /\ Len(sessions) = 2

\* C14: session logs are append-only: across every step each session is still
\* in the list and its log before the step is a prefix of its log after it.
C14_AppendOnly ==
    [][\A i \in DOMAIN sessions :
         \E j \in DOMAIN sessions' :
            /\ sessions'[j].id = sessions[i].id
            /\ IsPrefix(sessions[i].messages, sessions'[j].messages)]_vars

C14_Witness ==
    /\ call.op = "complete"
    /\ Len(sessions) = 2
    /\ Len(sessions[2].messages) = 4
    /\ Len(sessions[1].messages) = 0

\* C13: a file whose type is not one of image/png, image/jpeg, image/webp,
\* image/heic, image/heif is refused by the file input with no state change
\* (the image pair is unchanged, no message is added); a file of one of these
\* types is handed to attachImage, which makes it the current image.
C13_FileTypeFilter ==
    [][call'.op = "handleFileChange"
        => IF call'.text \in {"image/png", "image/jpeg", "image/webp",
                              "image/heic", "image/heif"}
           THEN \E file \in Files :
                  /\ file.type = call'.text
                  /\ currentImageDataUrl' = file.dataUrl
                  /\ SameImage(currentImage', file.dataUrl)
           ELSE UNCHANGED <<storeVars, fetches, inflight>>]_vars

C13_Witness ==
    /\ call.op = "handleFileChange"
    /\ call.text = "text/plain"
    /\ currentImage = "blob:AAAA"
    /\ Len(messages) = 2

C13_WitnessAccepted ==
    /\ call.op = "handleFileChange"
    /\ call.text = "image/heif"
    /\ currentImage = "blob:HEIF"

\* C15 as stated: the initial key is the stored value, or empty if there is
\* none, and after every change of the key localStorage holds the new key if
\* it is non-empty and no entry if it is empty.
C15_KeyMirrored ==
    [][/\ call'.op = "reload"
            => apiKey' = IF storage = Null THEN "" ELSE storage
       /\ apiKey' # apiKey
            => storage' = IF apiKey' # "" THEN apiKey' ELSE Null]_vars

\* C15 amended: the same, for the loads and changes at which localStorage does
\* not raise; when it raises, the initial key is empty, a changed key takes
\* effect in the state all the same, and the stored entry stays as it was.
C15_KeyMirroredUnlessStorageRaises ==
    [][/\ (call'.op = "reload" /\ ~storageError')
            => apiKey' = IF storage = Null THEN "" ELSE storage
       /\ (call'.op = "reload" /\ storageError')
            => apiKey' = "" /\ storage' = storage
       /\ (apiKey' # apiKey /\ ~storageError')
            => storage' = IF apiKey' # "" THEN apiKey' ELSE Null
       /\ (call'.op = "setApiKey" /\ storageError')
            => apiKey' = call'.text /\ storage' = storage]_vars

C15_Witness ==
    /\ call.op = "setApiKey"
    /\ ~storageError
    /\ apiKey = ""
    /\ storage = Null
    /\ fetches = 1

C15_WitnessReload ==
    /\ call.op = "reload"
    /\ ~storageError
    /\ apiKey = "k"
    /\ storage = "k"
    /\ fetches = 1

\* C16: a pointer-down and a Clear each push exactly one snapshot, that of
\* both rasters as they were before the step changed them, and leave the redo
\* stack empty; a pointer-move and a pointer-up leave both stacks as they were.
C16_SnapshotBeforeMutation ==
    [][/\ call'.op \in {"startDraw", "clearOverlay"}
            => /\ undoStack' = Append(undoStack,
                                      [overlay |-> getImageData(overlay),
                                       hidden |-> getImageData(hidden)])
               /\ redoStack' = <<>>
       /\ call'.op \in {"drawMove", "endDraw"}
            => UNCHANGED <<undoStack, redoStack>>]_vars

\* a stroke begun over a painted surface: the snapshot holds the paint of
\* before, the raster one more mark
C16_Witness ==
    /\ call.op = "startDraw"
    /\ Len(undoStack) = 2
    /\ undoStack[2].overlay.px = {1}
    /\ undoStack[2].hidden.px = {1}
    /\ overlay.px = {1, 2}
    /\ redoStack = <<>>

C16_WitnessClear ==
    /\ call.op = "clearOverlay"
    /\ Len(undoStack) = 2
    /\ undoStack[2].overlay.px = {1, 2}
    /\ overlay.px = {}
    /\ hidden.px = {}
    /\ redoStack = <<>>

C16_WitnessMove ==
    /\ call.op = "drawMove"
    /\ Len(undoStack) = 1
    /\ Len(redoStack) = 1
    /\ overlay.px = {1, 2}

\* C17: after strokes drawn on a freshly opened surface, each Undo takes one
\* snapshot off the undo stack, so as many Undo as strokes empty it, and the
\* Undo that empties it leaves both rasters blank; an Undo on the empty stack
\* changes neither the rasters nor the stacks.
C17_UndoAllStrokes ==
    [][call'.op = "handleUndo"
        => IF undoStack = <<>>
           THEN UNCHANGED <<overlay, hidden, undoStack, redoStack>>
           ELSE /\ Len(undoStack') = Len(undoStack) - 1
                /\ undoStack' = <<>>
                    => /\ overlay'.px = {}
                       /\ hidden'.px = {}
                       /\ overlay'.w = overlay.w /\ overlay'.h = overlay.h
                       /\ hidden'.w = hidden.w /\ hidden'.h = hidden.h]_vars

\* two strokes, the second over the first, and two Undo
C17_Witness ==
    /\ call.op = "handleUndo"
    /\ undoStack = <<>>
    /\ Len(redoStack) = 2
    /\ redoStack[1].overlay.px = {1, 2}
    /\ redoStack[2].hidden.px # {}
    /\ overlay.px = {}
    /\ hidden.px = {}

\* no stroke and one Undo
C17_WitnessNone ==
    /\ call.op = "handleUndo"
    /\ isModalOpen
    /\ loadedSrc = currentImage
    /\ undoStack = <<>>
    /\ redoStack = <<>>

\* C18: in every state of the open surface with a non-empty undo stack, Undo
\* followed at once by Redo gives back both rasters and both stacks exactly,
\* and with a non-empty redo stack so does Redo followed at once by Undo.
C18_UndoRedoMirror ==
    isModalOpen
        => /\ undoStack # <<>> => handleRedo(handleUndo(Here)) = Here
           /\ redoStack # <<>> => handleUndo(handleRedo(Here)) = Here

\* a painted surface reached by Redo after two Undo, with both stacks
\* non-empty
C18_Witness ==
    /\ call.op = "handleRedo"
    /\ Len(undoStack) = 1
    /\ Len(redoStack) = 1
    /\ overlay.px # {}
    /\ redoStack[1].overlay.px # overlay.px
    /\ undoStack[1].overlay.px # overlay.px

\* the size, in CSS pixels, at which the preview shows the image it has loaded
Displayed == DisplayedRect(NaturalSize(loadedSrc), window)

\* C19: while the surface is open, every step that changes the size the image
\* is displayed at leaves the display raster sized to the new displayed size
\* and both stacks empty.
C19_ResizeResetsHistory ==
    [][(isModalOpen /\ isModalOpen' /\ Displayed' # Displayed)
        => /\ overlay'.w = Max(1, Displayed'.w * window'.dpr)
           /\ overlay'.h = Max(1, Displayed'.h * window'.dpr)
           /\ undoStack' = <<>>
           /\ redoStack' = <<>>]_vars

\* C20: when Apply exports the mask of an image the preview has loaded, the
\* exported raster has the natural width and height of that image.
C20_MaskAtNaturalSize ==
    [][(call'.op = "applySelection" /\ isModalOpen /\ ~isModalOpen'
            /\ loadedSrc = currentImage)
        => \E px \in SUBSET Points :
            handed' = toDataURL([w |-> NaturalSize(currentImage).w,
                                 h |-> NaturalSize(currentImage).h,
                                 px |-> px])]_vars

\* a mask exported in a window where the image is displayed at 4 by 2 CSS
\* pixels and 8 by 4 device pixels
C20_Witness ==
    /\ call.op = "applySelection"
    /\ ~isModalOpen
    /\ currentImage = "blob:FILE"
    /\ window = [w |-> 6, h |-> 6, dpr |-> 2]
    /\ handed = toDataURL([w |-> 4, h |-> 2, px |-> {1}])

\* a mask exported for an image taller than the window, displayed at 1 by 3
C20_WitnessScaled ==
    /\ call.op = "applySelection"
    /\ ~isModalOpen
    /\ currentImage = "blob:HEIF"
    /\ window = [w |-> 3, h |-> 3, dpr |-> 1]
    /\ handed = toDataURL([w |-> 2, h |-> 4, px |-> {2}])

\* C21: an Apply whose export raises hands no mask to the caller and leaves
\* the preview overlay, both rasters, both stacks and the open surface as they
\* were; an Apply closes the surface only when its export succeeded, and then
\* the mask handed over and the preview are the exported raster.
C21_FailedExportAbandons ==
    [][call'.op = "applySelection"
        => /\ call'.text = "raised"
                => /\ isModalOpen'
                   /\ UNCHANGED <<handed, overlayPreviewDataUrl, overlay,
                                  hidden, undoStack, redoStack>>
           /\ ~isModalOpen'
                => /\ call'.text # "raised"
                   /\ handed' = toDataURL(hidden)
                   /\ overlayPreviewDataUrl' = toDataURL(hidden)]_vars

\* a failed export over a painted surface with states kept for Undo and Redo
C21_Witness ==
    /\ call.op = "applySelection"
    /\ call.text = "raised"
    /\ isModalOpen
    /\ hidden.px # {}
    /\ undoStack # <<>>
    /\ redoStack # <<>>
    /\ handed = Null

\* a failed export after an earlier successful one: the earlier mask stays
C21_WitnessRetry ==
    /\ call.op = "applySelection"
    /\ call.text = "raised"
    /\ isModalOpen
    /\ handed # Null
    /\ handed # toDataURL(hidden)

\* C22: a step that changes the current image, or clears it, leaves no
\* overlay shown above the image.
C22_OverlayGoneWithImage ==
    [][currentImage' # currentImage => ShownOverlay' = Null]_vars

\* C23: the completion of a request whose response carries image data that
\* cannot be decoded leaves the current image pair as it was before the
\* response and the pending flag false.
C23_MalformedImageAbandoned ==
    [][(call'.op = "complete"
            /\ Truthy(call'.response.imageUrl)
            /\ ~Decodes(call'.response.imageUrl))
        => /\ UNCHANGED <<currentImage, currentImageDataUrl>>
           /\ isLoading' = FALSE]_vars

\* C24: in every state of the open surface the display raster and the source
\* raster hold the same marks, and so do the two halves of every snapshot kept
\* for Undo or Redo.
C24_RastersInLockstep ==
    /\ isModalOpen => overlay.px = hidden.px
    /\ \A i \in DOMAIN undoStack : undoStack[i].overlay.px = undoStack[i].hidden.px
    /\ \A i \in DOMAIN redoStack : redoStack[i].overlay.px = redoStack[i].hidden.px

\* a segment drawn on rasters of different sizes, with a snapshot kept on
\* each stack
C24_Witness ==
    /\ isModalOpen
    /\ call.op = "drawMove"
    /\ overlay.px = {1, 2}
    /\ hidden.px = {1, 2}
    /\ overlay.w # hidden.w
    /\ undoStack # <<>>
    /\ redoStack # <<>>

\* C25: when a request issued under one session completes while another
\* session is active, the messages view and the current image pair are left
\* as they were and no session but the one of the request is changed.
C25_NoLeakAcrossSessions ==
    [][call'.op = "complete"
        => \A r \in inflight \ inflight' :
            r.sessionId # currentSessionId
                => /\ UNCHANGED <<messages, currentImage, currentImageDataUrl>>
                   /\ \A i \in DOMAIN sessions :
                        sessions[i].id # r.sessionId
                            => sessions'[i] = sessions[i]]_vars

\* C26: a sendMessage call that is accepted sends the source data of the
\* image current at the call and leaves the current image pair as it was, and
\* the arrival of a response without an image leaves the pair as it was too,
\* so that after completion the pair is the one of before the call; with or
\* without an active session at the call.
C26_NoImageResponseKeepsImage ==
    [][/\ (call'.op = "sendMessage" /\ fetches' # fetches)
            => /\ \A r \in inflight' \ inflight :
                    r.request.currentImage = currentImageDataUrl
               /\ currentImage' = currentImage
               /\ currentImageDataUrl' = currentImageDataUrl
       /\ (call'.op = "complete" /\ ~Truthy(call'.response.imageUrl))
            => /\ currentImage' = currentImage
               /\ currentImageDataUrl' = currentImageDataUrl]_vars

\* the messages of the view and of every session log
StoredMessages ==
    {messages[i] : i \in DOMAIN messages}
    \cup UNION {{sessions[k].messages[i] : i \in DOMAIN sessions[k].messages} :
                k \in DOMAIN sessions}

\* C27: currentImage is null exactly when currentImageDataUrl is null; when
\* they are present the display URL shows the image the data URL encodes; and
\* every message that has an imageUrl has an imageDataUrl.
C27_ImagePairPaired ==
    /\ currentImage = Null <=> currentImageDataUrl = Null
    /\ currentImage # Null => SameImage(currentImage, currentImageDataUrl)
    /\ \A m \in StoredMessages : Truthy(m.imageUrl) => Truthy(m.imageDataUrl)

\* a session without image loaded after an image was attached, and a session
\* reloaded whose last image came from a response
C27_Witness ==
    /\ call.op = "loadSession"
    /\ currentImage = "blob:AAAA"
    /\ currentImageDataUrl = GoodDataUrl
    /\ Len(sessions) = 2

C27_WitnessCleared ==
    /\ call.op = "loadSession"
    /\ currentImage = Null
    /\ currentImageDataUrl = Null
    /\ \E m \in StoredMessages : Truthy(m.imageUrl)

\* C28: the active session id is null or the id of exactly one session of the
\* list, the ids of the list are pairwise distinct, and a step never takes
\* the active id from a session back to null.
C28_ActiveSessionValid ==
    /\ [](/\ currentSessionId # NoId
                => Cardinality({i \in DOMAIN sessions :
                                    sessions[i].id = currentSessionId}) = 1
          /\ \A i, j \in DOMAIN sessions :
                sessions[i].id = sessions[j].id => i = j)
    /\ [][currentSessionId # NoId => currentSessionId' # NoId]_vars

\* the older of two sessions made active again by loadSession, after a
\* loadSession of an id that is not in the list
C28_Witness ==
    /\ call.op = "loadSession"
    /\ Len(sessions) = 2
    /\ currentSessionId = sessions[2].id

C28_WitnessUnknown ==
    /\ call.op = "loadSession"
    /\ ~Known(sessions, call.id)
    /\ currentSessionId # NoId
    /\ currentSessionId # call.id

\* C29: every session log has even length and is a sequence of pairs, a user
\* message followed by the AI reply to that message.
C29_LogsAreWholeExchanges ==
    \A k \in DOMAIN sessions :
        LET log == sessions[k].messages
        IN  /\ Len(log) % 2 = 0
            /\ \A i \in 1..(Len(log) \div 2) :
                /\ log[2 * i - 1].sender = "user"
                /\ log[2 * i].sender = "ai"
                /\ log[2 * i].id = AiMessageId(log[2 * i - 1])

\* two requests pending together on one session, completed in the order
\* opposite to the one they were issued in
C29_Witness ==
    /\ call.op = "complete"
    /\ inflight = {}
    /\ \E k \in DOMAIN sessions :
        /\ Len(sessions[k].messages) = 4
        /\ sessions[k].messages[1].id > sessions[k].messages[3].id

\* C30: in every state of store and canvas together, if the edit surface is
\* open then the current image is not null.
C30_OpenOnlyOverImage ==
    isModalOpen => currentImage # Null

====
